---- MODULE Spec2Model ----
(***************************************************************************)
(* Model of the cantools signal codec (src/src/signals.rs, mask.rs,        *)
(* data.rs, decode.rs, encode.rs).                                         *)
(*                                                                         *)
(* Number representation.  TLC integers are 32 bit, the codec works on     *)
(* u64 / i64 / f64, so:                                                    *)
(*   - a u8, u64 or i64 is its bit pattern, the set of the indices of its  *)
(*     1 bits (0..7, 0..63); an i64 is read in two's complement;           *)
(*   - an f64 is modelled on the integer-valued doubles only, as a         *)
(*     sign-magnitude record [neg, mag] with mag the set of 1 bits of the  *)
(*     magnitude, and every arithmetic step rounds to 53 significant bits  *)
(*     (round to nearest, ties to even) as IEEE 754 does;                  *)
(*   - u16 positions and usize lengths are TLC integers; where a u16       *)
(*     operation can leave 0..65535 the model says what the build does:    *)
(*     with overflow checks (the debug profile) the call panics, without   *)
(*     them (the release profile) the value wraps modulo 2^16.             *)
(***************************************************************************)
EXTENDS Integers, Sequences, FiniteSets, TLC

\* ------------------------------------------------------------------------
\* Bounds of the model (inputs are drawn from the sets built on them)
\* ------------------------------------------------------------------------
\* calls made on the library per behaviour, the constructor included
MaxCalls == 3
\* try_encode calls per behaviour
MaxEncodes == 1

\* number of try_encode calls of a run that writes one buffer repeatedly
MaxWrites == 2

\* number of lines of a file that is read
MaxLines == 2

\* ------------------------------------------------------------------------
\* Program constants
\* ------------------------------------------------------------------------
\* bits per buffer byte (u8)
ByteBits == 8
\* width of the u64 / i64 scratch value
WordBits == 64
\* number of bytes of the scratch slice
ScratchLen == 8
\* u16 positions wrap at 2^16
U16Mod == 65536
\* significant bits of an f64
F64Mant == 53
\* largest admitted signal length
MaxLength == 64

\* ------------------------------------------------------------------------
\* Statement order
\* ------------------------------------------------------------------------
\* `let v = e; F(v)`: e is evaluated to a value first, then F runs on it
Bind(e, F(_)) == CHOOSE r \in {F(v) : v \in {e}} : TRUE

\* ------------------------------------------------------------------------
\* Bit patterns
\* ------------------------------------------------------------------------
\* the 1 bits of a small natural n, among bits 0..w-1
BitsOf(n, w) == {i \in 0..(w - 1) : (n \div (2 ^ i)) % 2 = 1}

RECURSIVE TopIn(_, _, _)
\* the largest member of s among lo..hi, by bisection
TopIn(s, lo, hi) ==
    IF lo = hi THEN lo
    ELSE IF s \cap (((lo + hi + 1) \div 2)..hi) # {}
    THEN TopIn(s, (lo + hi + 1) \div 2, hi)
    ELSE TopIn(s, lo, ((lo + hi + 1) \div 2) - 1)

\* no magnitude of the model reaches 2 ^ MagCap
MagCap == 4 * WordBits

\* the highest 1 bit of a nonempty magnitude
Top(s) ==
    IF s \subseteq 0..(MagCap - 1) THEN TopIn(s, 0, MagCap - 1)
    ELSE CHOOSE i \in s : \A j \in s : j <= i

\* number of significant bits of a magnitude
BitLen(s) == IF s = {} THEN 0 ELSE Top(s) + 1

ShlSet(s, k) == {i + k : i \in s}

ShrSet(s, k) == {i - k : i \in s \ (0..(k - 1))}

\* Arithmetic on magnitudes goes limb by limb, a limb being ByteBits bits
\* held in a TLC integer.
LimbMod == 2 ^ ByteBits

\* limb j of s as an integer
Limb(s, j) ==
    LET b(i) == IF (ByteBits * j + i) \in s THEN 2 ^ i ELSE 0
    IN  b(0) + b(1) + b(2) + b(3) + b(4) + b(5) + b(6) + b(7)

\* the bits of the integer v < LimbMod, as limb j
LimbSet(v, j) == ShlSet(BitsOf(v, ByteBits), ByteBits * j)

\* number of limbs of a magnitude
NLimbs(s) == (BitLen(s) + ByteBits - 1) \div ByteBits

RECURSIVE AddLimbs(_, _, _, _, _)
\* a + b + c on limbs j..n-1, c the carry into limb j; the carry out of
\* limb n-1 is bit ByteBits * n of the result
AddLimbs(a, b, j, c, n) ==
    IF j = n THEN LimbSet(c, n)
    ELSE LET t == Limb(a, j) + Limb(b, j) + c
         IN  LimbSet(t % LimbMod, j) \cup AddLimbs(a, b, j + 1, t \div LimbMod, n)

\* exact sum of two magnitudes
MagAdd(a, b) ==
    IF b = {} THEN a
    ELSE IF a = {} THEN b
    ELSE AddLimbs(a, b, 0, 0, NLimbs(a \cup b))

\* a < b on magnitudes
MagLess(a, b) ==
    LET d == (a \ b) \cup (b \ a)
    IN  d # {} /\ Top(d) \in b

\* exact a - b on magnitudes, for a >= b: a + (2^w - 1 - b) + 1 - 2^w
MagSub(a, b) ==
    LET w == ByteBits * NLimbs(a)
    IN  IF b = {} THEN a
        ELSE AddLimbs(a, (0..(w - 1)) \ b, 0, 1, NLimbs(a)) \ {w}

RECURSIVE MulLimbs(_, _, _, _, _)
\* a * k for a natural k < 2^16, limbs j..n-1 of a, carry c
MulLimbs(a, k, j, c, n) ==
    IF j >= n /\ c = 0 THEN {}
    ELSE LET t == Limb(a, j) * k + c
         IN  LimbSet(t % LimbMod, j) \cup MulLimbs(a, k, j + 1, t \div LimbMod, n)

MagMul(a, k) == IF k = 1 THEN a ELSE MulLimbs(a, k, 0, 0, NLimbs(a))

RECURSIVE DivLimbs(_, _, _, _, _)
\* long division of a by k (0 < k < 2^16) from limb j down, with running
\* remainder r and quotient q: [q |-> quotient, r |-> remainder]
DivLimbs(a, k, j, r, q) ==
    IF j < 0 THEN [q |-> q, r |-> r]
    ELSE LET Rest(st) == DivLimbs(a, k, j - 1, st.r, st.q)
             t == r * LimbMod + Limb(a, j)
         IN  Bind([r |-> t % k, q |-> q \cup LimbSet(t \div k, j)], Rest)

MagDiv(a, k) ==
    IF k = 1 THEN [q |-> a, r |-> 0]
    ELSE DivLimbs(a, k, NLimbs(a) - 1, 0, {})

\* ------------------------------------------------------------------------
\* f64 on the integer-valued doubles
\* ------------------------------------------------------------------------
\* round a magnitude to F64Mant significant bits, nearest, ties to even;
\* sticky says that a nonzero part below bit 0 was cut off already
RoundNE(m, sticky) ==
    LET Cut(cut) ==
            IF cut <= 0 THEN m
            ELSE LET kept == m \ (0..(cut - 1))
                     low  == sticky \/ m \cap (0..(cut - 2)) # {}
                     up   == (cut - 1) \in m /\ (low \/ cut \in m)
                 IN  IF up THEN MagAdd(kept, {cut}) ELSE kept
    IN  IF m \subseteq 0..(F64Mant - 1) /\ ~sticky THEN m
        ELSE Bind(BitLen(m) - F64Mant, Cut)

\* the double nearest to the integer (-1)^neg * m
MkF64(neg, m) ==
    LET r == RoundNE(m, FALSE)
    IN  [neg |-> neg /\ r # {}, mag |-> r]

Abs(k) == IF k < 0 THEN -k ELSE k

\* a small integer (a literal such as 2.0 or 1337.0, below 2^16) as a double
IntF64(k) == MkF64(k < 0, BitsOf(Abs(k), 2 * ByteBits))

\* x + y, correctly rounded
F64Add(x, y) ==
    IF x.neg = y.neg THEN MkF64(x.neg, MagAdd(x.mag, y.mag))
    ELSE IF MagLess(x.mag, y.mag) THEN MkF64(y.neg, MagSub(y.mag, x.mag))
    ELSE MkF64(x.neg, MagSub(x.mag, y.mag))

F64Neg(x) == [neg |-> ~x.neg /\ x.mag # {}, mag |-> x.mag]

\* x - y, correctly rounded
F64Sub(x, y) == F64Add(x, F64Neg(y))

\* x * k for a double x and an integer-valued double k
F64Mul(x, k) == MkF64(x.neg # (k < 0), MagMul(x.mag, Abs(k)))

\* x < y
F64Less(x, y) ==
    IF x.neg # y.neg THEN x.neg
    ELSE IF x.neg THEN MagLess(y.mag, x.mag)
    ELSE MagLess(x.mag, y.mag)

\* fraction bits carried through a division by k < 2^16 before rounding:
\* enough for the quotient to have a guard bit below its F64Mant bits
DivFrac(m) ==
    IF BitLen(m) >= F64Mant + 2 * ByteBits + 2 THEN 0
    ELSE F64Mant + 2 * ByteBits + 2 - BitLen(m)

\* (x / k).trunc() for an integer-valued double k # 0: the quotient is
\* rounded to a double first, then truncated towards zero; a quotient
\* without remainder is the double itself
F64DivTrunc(x, k) ==
    LET Quot(whole) ==
            IF whole.r = 0 THEN RoundNE(whole.q, FALSE)
            ELSE LET f == DivFrac(x.mag)
                     d == MagDiv(ShlSet(x.mag, f), Abs(k))
                 IN  ShrSet(RoundNE(d.q, d.r # 0), f)
        Signed(t) == [neg |-> (x.neg # (k < 0)) /\ t # {}, mag |-> t]
    IN  Bind(Bind(MagDiv(x.mag, Abs(k)), Quot), Signed)

\* ------------------------------------------------------------------------
\* 64-bit words as bit patterns
\* ------------------------------------------------------------------------
Word == 0..(WordBits - 1)

Not64(a) == Word \ a

\* wrapping a + b
Add64(a, b) == AddLimbs(a, b, 0, 0, WordBits \div ByteBits) \ {WordBits}

\* wrapping a - b
Sub64(a, b) == AddLimbs(a, Not64(b), 0, 1, WordBits \div ByteBits) \ {WordBits}

SignBit == WordBits - 1

\* i64 a + b leaves the i64 range
AddOverflows(a, b) ==
    ((SignBit \in a) = (SignBit \in b)) /\ ((SignBit \in Add64(a, b)) # (SignBit \in a))

\* i64 a - b leaves the i64 range
SubOverflows(a, b) ==
    ((SignBit \in a) # (SignBit \in b)) /\ ((SignBit \in Sub64(a, b)) # (SignBit \in a))

\* u64 >> k (k < 64)
Shr64(a, k) == ShrSet(a, k)

\* i64 >> k: arithmetic shift, the sign bit is replicated
Sar64(a, k) == ShrSet(a, k) \cup (IF SignBit \in a THEN (WordBits - k)..SignBit ELSE {})

\* `x as f64` for a u64 x
u64_as_f64(a) == MkF64(FALSE, a)

\* `x as f64` for an i64 x
i64_as_f64(a) ==
    IF SignBit \in a THEN MkF64(TRUE, Sub64({}, a))
    ELSE MkF64(FALSE, a)

\* `x as u64` for a double x: saturating
f64_as_u64(x) ==
    IF x.neg THEN {}
    ELSE IF BitLen(x.mag) > WordBits THEN Word
    ELSE x.mag

\* `x as i64` for a double x: saturating
f64_as_i64(x) ==
    IF ~x.neg THEN (IF BitLen(x.mag) > SignBit THEN Word \ {SignBit} ELSE x.mag)
    ELSE IF BitLen(x.mag) > SignBit THEN {SignBit}
    ELSE Sub64({}, x.mag)

\* u64::from_le_bytes / i64::from_le_bytes of a slice of ScratchLen bytes
from_le_bytes(slice) ==
    UNION {ShlSet(slice[j], ByteBits * (j - 1)) : j \in 1..ScratchLen}

\* ------------------------------------------------------------------------
\* mask.rs
\* ------------------------------------------------------------------------
\* the widths of the integer types that implement Mask: 8, 16, 32, 64
Widths == {ByteBits, 2 * ByteBits, 4 * ByteBits, WordBits}

\* one round `result += 1; result <<= 1` on a w-bit word; bit 0 is clear
\* before every `+= 1`, so the addition never carries
MaskRound(result, w) == {i + 1 : i \in (result \cup {0}) \ {w - 1}}

RECURSIVE MaskLoop(_, _, _)
\* n rounds of the loop body, run as the first n/2 rounds and then the rest
MaskLoop(n, result, w) ==
    IF n = 0 THEN result
    ELSE IF n = 1 THEN MaskRound(result, w)
    ELSE LET Rest(half) == MaskLoop(n - (n \div 2), half, w)
         IN  Bind(MaskLoop(n \div 2, result, w), Rest)

\* rounds of the loop `for _ in 0..(length-1)`; without overflow checks
\* length = 0 wraps to 65535 rounds, and the word no longer changes after w
MaskRounds(length, w) ==
    LET n == (length - 1) % U16Mod
    IN  IF n > w THEN w ELSE n

\* `result` after n rounds of the loop, for every n that matters: the loops
\* are run once, when the model is loaded
LoopResults == [w \in Widths |-> [n \in 0..w |-> MaskLoop(n, {}, w)]]

\* A faulty mask that leaves the shift out
mask_NoShift(length, shift, w) ==
    LoopResults[w][MaskRounds(length, w)] \cup {0}

\* Mask::mask(length, shift) for a w-bit integer, as the wrapping build
\* computes it (`<<= shift` takes the shift modulo w)
mask(length, shift, w) ==
    ShlSet(LoopResults[w][MaskRounds(length, w)] \cup {0}, shift % w) \cap (0..(w - 1))

\* Mask::mask(length, shift) panics: with overflow checks, `length - 1`
\* underflows for length = 0 and `<<= shift` overflows for shift >= w
mask_panics(length, shift, w, checks) ==
    checks /\ (length = 0 \/ shift >= w)

u8_mask(length, shift) == mask(length, shift, ByteBits)

u64_mask(length, shift) == mask(length, shift, WordBits)

i64_mask(length, shift) == mask(length, shift, WordBits)

\* ------------------------------------------------------------------------
\* Results
\* ------------------------------------------------------------------------
Ok(v) == [tag |-> "Ok", val |-> v]

\* Ok(())
OkUnit == Ok("()")

Err(e) == [tag |-> "Err", err |-> e]

\* the call does not return: panic (unwrap on Err, arithmetic overflow)
Panic == [tag |-> "Panic"]

IsOk(r) == r.tag = "Ok"

IsErr(r, e) == r.tag = "Err" /\ r.err = e

IsPanic(r) == r.tag = "Panic"

\* u16 arithmetic: the wrapped value, and whether the true value wraps
W16(x) == x % U16Mod

Wraps16(x) == x < 0 \/ x >= U16Mod

\* ------------------------------------------------------------------------
\* mask.rs: the functions of Mask for a w-bit integer type, signed or not
\* ------------------------------------------------------------------------
\* the largest value of the type: the addition `result += 1` overflows on it
MaxOf(w, signed) == IF signed THEN 0..(w - 2) ELSE 0..(w - 1)

\* a `result += 1` of mask overflows: in a round of the loop or after it
MaskAddOverflows(length, w, signed) ==
    \E n \in 0..MaskRounds(length, w) : LoopResults[w][n] = MaxOf(w, signed)

\* Mask::mask
Mask_mask(length, shift, w, signed, checks) ==
    IF mask_panics(length, shift, w, checks) THEN Panic
    ELSE IF checks /\ MaskAddOverflows(length, w, signed) THEN Panic
    ELSE Ok(mask(length, shift, w))

\* Mask::bit_mask: `result |= 1 << bit` for every bit of the slice; the shift
\* is taken modulo w without overflow checks and panics with them
Mask_bit_mask(bits, w, checks) ==
    IF checks /\ \E j \in 1..Len(bits) : bits[j] >= w THEN Panic
    ELSE Ok({bits[j] % w : j \in 1..Len(bits)})

\* Mask::full_mask: 0xFF.. for the unsigned types, -1 for the signed ones
Mask_full_mask(w) == Ok(0..(w - 1))

\* ------------------------------------------------------------------------
\* data.rs: a buffer is the sequence of its bytes
\* ------------------------------------------------------------------------
dlc(data) == Len(data)

\* the scratch byte taken from data.data().get(index): the byte, or 0 for None
get_or_zero(data, index) == IF index < Len(data) THEN data[index + 1] ELSE {}

\* bit k of a buffer: bit (k % 8) of byte (k / 8)
BufBit(data, k) == (k % ByteBits) \in data[(k \div ByteBits) + 1]

\* ------------------------------------------------------------------------
\* signals.rs: Bit
\* ------------------------------------------------------------------------
\* Bit::new: the descriptor of one bit
Bit_new(start) == [kind |-> "Bit", start |-> start]

\* Bit::try_decode; the comparison is made in u16, the index is a slice index
Bit_try_decode(start, data) ==
    LET start_byte == start \div ByteBits
        bit_in_start_byte == start % ByteBits
    IN  IF start >= W16(ByteBits * dlc(data)) THEN Err("()")
        ELSE IF start_byte >= dlc(data) THEN Panic
        ELSE Ok(ShrSet(data[start_byte + 1], bit_in_start_byte) \cap {0} # {})

\* A faulty Bit::try_encode that sets or clears the whole byte of the bit
Bit_try_encode_WholeByte(start, data, value) ==
    IF start \div ByteBits >= dlc(data) THEN [res |-> Err("NotEnoughData"), data |-> data]
    ELSE [res |-> OkUnit,
          data |-> [data EXCEPT ![(start \div ByteBits) + 1] =
                        IF value THEN u8_mask(ByteBits, 0) ELSE {}]]

\* A faulty Bit::try_encode that sets bits and never clears one
Bit_try_encode_SetOnly(start, data, value) ==
    IF start \div ByteBits >= dlc(data) THEN [res |-> Err("NotEnoughData"), data |-> data]
    ELSE IF value
    THEN [res |-> OkUnit,
          data |-> [data EXCEPT ![(start \div ByteBits) + 1] = @ \cup u8_mask(1, start % ByteBits)]]
    ELSE [res |-> OkUnit, data |-> data]

\* Bit::try_encode: [res |-> result, data |-> the buffer afterwards]
Bit_try_encode(start, data, value) ==
    LET start_bit_in_byte == start % ByteBits
        start_byte == start \div ByteBits
    IN  IF start_byte >= dlc(data) THEN [res |-> Err("NotEnoughData"), data |-> data]
        ELSE IF value
        THEN [res |-> OkUnit,
              data |-> [data EXCEPT ![start_byte + 1] = @ \cup u8_mask(1, start_bit_in_byte)]]
        ELSE [res |-> OkUnit,
              data |-> [data EXCEPT ![start_byte + 1] = @ \ u8_mask(1, start_bit_in_byte)]]

\* ------------------------------------------------------------------------
\* signals.rs: Unsigned and Signed descriptors
\* factor and offset are integer-valued doubles, kept as TLC integers
\* ------------------------------------------------------------------------
Descriptor(kind, start, length, factor, offset, endian) ==
    [kind |-> kind, start |-> start, length |-> length,
     factor |-> factor, offset |-> offset, endian |-> endian]

\* A faulty Unsigned::new that rejects the length MaxLength as well
Unsigned_new_Below64(start, length, factor, offset, endian) ==
    IF length = 0 THEN Err("LengthZero")
    ELSE IF length >= MaxLength THEN Err("LengthGreater64")
    ELSE Ok(Descriptor("Unsigned", start, length, factor, offset, endian))

Unsigned_new(start, length, factor, offset, endian) ==
    IF length = 0 THEN Err("LengthZero")
    ELSE IF length > MaxLength THEN Err("LengthGreater64")
    ELSE Ok(Descriptor("Unsigned", start, length, factor, offset, endian))

Signed_new(start, length, factor, offset, endian) ==
    IF length = 0 THEN Err("LengthZero")
    ELSE IF length > MaxLength THEN Err("LengthGreater64")
    ELSE Ok(Descriptor("Signed", start, length, factor, offset, endian))

\* base * factor + offset, as `base *= factor; base += offset`
Scale(base, sig) == F64Add(F64Mul(base, sig.factor), IntF64(sig.offset))

Unsigned_min(sig) == Ok(IntF64(sig.offset))

\* A faulty Unsigned::max that leaves the offset out
Unsigned_max_NoOffset(sig, checks) ==
    IF mask_panics(sig.length, 0, WordBits, checks) THEN Panic
    ELSE Ok(F64Mul(u64_as_f64(u64_mask(sig.length, 0)), sig.factor))

Unsigned_max(sig, checks) ==
    IF mask_panics(sig.length, 0, WordBits, checks) THEN Panic
    ELSE Ok(Scale(u64_as_f64(u64_mask(sig.length, 0)), sig))

Signed_min(sig, checks) ==
    IF mask_panics(WordBits - sig.length + 1, sig.length - 1, WordBits, checks) THEN Panic
    ELSE Ok(Scale(i64_as_f64(i64_mask(WordBits - sig.length + 1, sig.length - 1)), sig))

Signed_max(sig, checks) ==
    IF mask_panics(sig.length - 1, 0, WordBits, checks) THEN Panic
    ELSE Ok(Scale(u64_as_f64(u64_mask(sig.length - 1, 0)), sig))

min(sig, checks) ==
    IF sig.kind = "Unsigned" THEN Unsigned_min(sig) ELSE Signed_min(sig, checks)

max(sig, checks) ==
    IF sig.kind = "Unsigned" THEN Unsigned_max(sig, checks) ELSE Signed_max(sig, checks)

\* ------------------------------------------------------------------------
\* availability checks
\* ------------------------------------------------------------------------
\* A faulty Little check that also refuses a span ending with the buffer
LittleAvail_Inclusive(sig, data, checks) ==
    IF checks /\ (Wraps16(sig.start + sig.length) \/ Wraps16(ByteBits * W16(dlc(data))))
    THEN "panic"
    ELSE IF W16(sig.start + sig.length) >= W16(ByteBits * W16(dlc(data))) THEN "fail"
    ELSE "pass"

\* Little: `self.start + self.length > (8 * data.dlc() as u16)` in u16:
\* "panic", "fail" (NotEnoughData) or "pass"
LittleAvail(sig, data, checks) ==
    IF checks /\ (Wraps16(sig.start + sig.length) \/ Wraps16(ByteBits * W16(dlc(data))))
    THEN "panic"
    ELSE IF W16(sig.start + sig.length) > W16(ByteBits * W16(dlc(data))) THEN "fail"
    ELSE "pass"

\* Big: the position of `start` counted from bit 7 of byte 0 downwards
BigPos(sig) == (ByteBits - 1 - (sig.start % ByteBits)) + ByteBits * (sig.start \div ByteBits)

\* Big: `shift` of the availability check, in isize; negative means NotEnoughData
BigShift(sig, data) == ByteBits * dlc(data) - BigPos(sig) - sig.length

BigAvail(sig, data) == IF BigShift(sig, data) < 0 THEN "fail" ELSE "pass"

\* ------------------------------------------------------------------------
\* try_decode
\* ------------------------------------------------------------------------
\* Little: the scratch slice filled from bytes start_byte..=end_byte
LittleSlice(sig, data) ==
    LET start_byte == sig.start \div ByteBits
        end_byte   == W16(W16(sig.start + sig.length) - 1) \div ByteBits
    IN  [j \in 1..ScratchLen |->
            IF start_byte + (j - 1) <= end_byte
            THEN get_or_zero(data, start_byte + (j - 1)) ELSE {}]

\* Big: the scratch slice filled in reverse from bytes start_byte..=end_byte
BigSlice(sig, data) ==
    LET start_byte == sig.start \div ByteBits
        end_byte   == W16(BigPos(sig) + sig.length - 1) \div ByteBits
        len        == IF end_byte >= start_byte THEN end_byte - start_byte + 1 ELSE 0
        min_data   == IF len < ScratchLen THEN len ELSE ScratchLen
    IN  [j \in 1..ScratchLen |->
            IF j <= min_data
            THEN get_or_zero(data, start_byte + (min_data - j)) ELSE {}]

\* Big: `end_byte + self.length - 1` leaves u16
BigEndPanics(sig, checks) == checks /\ Wraps16(BigPos(sig) + sig.length)

\* A faulty `converted` that is not shifted down to the start bit
UnsignedConverted_NoShift(sig, data) ==
    IF sig.endian = "Little"
    THEN from_le_bytes(LittleSlice(sig, data)) \cap u64_mask(sig.length, 0)
    ELSE from_le_bytes(BigSlice(sig, data)) \cap u64_mask(sig.length, 0)

\* the u64 `converted` of Unsigned::try_decode
UnsignedConverted(sig, data) ==
    IF sig.endian = "Little"
    THEN Shr64(from_le_bytes(LittleSlice(sig, data)), sig.start % ByteBits)
            \cap u64_mask(sig.length, 0)
    ELSE Shr64(from_le_bytes(BigSlice(sig, data)), ByteBits - 1 - (sig.start % ByteBits))
            \cap u64_mask(sig.length, 0)

\* the i64 `converted` of Signed::try_decode after `&= mask`, before sign extension
SignedMasked(sig, data) ==
    IF sig.endian = "Little"
    THEN Sar64(from_le_bytes(LittleSlice(sig, data)), sig.start % ByteBits)
            \cap i64_mask(sig.length, 0)
    ELSE Sar64(from_le_bytes(BigSlice(sig, data)), ByteBits - 1 - (sig.start % ByteBits))
            \cap i64_mask(sig.length, 0)

\* the sign bit of the masked value is set
SignSet(sig, converted) == converted \cap i64_mask(1, sig.length - 1) # {}

\* the availability check of try_decode / try_encode: "panic", "fail" or "pass"
Avail(sig, data, checks) ==
    IF sig.endian = "Little" THEN LittleAvail(sig, data, checks)
    ELSE BigAvail(sig, data)

Unsigned_try_decode(sig, data, checks) ==
    IF Avail(sig, data, checks) = "panic" THEN Panic
    ELSE IF Avail(sig, data, checks) = "fail" THEN Err("NotEnoughData")
    ELSE IF sig.endian = "Big" /\ BigEndPanics(sig, checks) THEN Panic
    ELSE Ok(Scale(u64_as_f64(UnsignedConverted(sig, data)), sig))

Signed_try_decode(sig, data, checks) ==
    IF Avail(sig, data, checks) = "panic" THEN Panic
    ELSE IF Avail(sig, data, checks) = "fail" THEN Err("NotEnoughData")
    ELSE IF sig.endian = "Big" /\ BigEndPanics(sig, checks) THEN Panic
    ELSE LET converted == SignedMasked(sig, data)
             ext == Not64(i64_mask(sig.length, 0))
         IN  IF ~SignSet(sig, converted) THEN Ok(Scale(i64_as_f64(converted), sig))
             ELSE IF checks /\ AddOverflows(converted, ext) THEN Panic
             ELSE Ok(Scale(i64_as_f64(Add64(converted, ext)), sig))

try_decode(sig, data, checks) ==
    IF sig.kind = "Unsigned" THEN Unsigned_try_decode(sig, data, checks)
    ELSE Signed_try_decode(sig, data, checks)

\* ------------------------------------------------------------------------
\* try_encode
\* ------------------------------------------------------------------------
\* ((value - offset) / factor).trunc()
Unscale(value, sig) == F64DivTrunc(F64Sub(value, IntF64(sig.offset)), sig.factor)

\* Unsigned: the masked u64 to write
UnsignedRaw(sig, value) == f64_as_u64(Unscale(value, sig)) \cap u64_mask(sig.length, 0)

\* Signed: the truncated i64 `value`
SignedTrunc(sig, value) == f64_as_i64(Unscale(value, sig))

\* Signed: `value -= !i64::mask(length, 0)` for a negative `value` leaves i64
SignedRawPanics(sig, v, checks) ==
    checks /\ SignBit \in v /\ SubOverflows(v, Not64(i64_mask(sig.length, 0)))

\* Signed: the masked i64 to write, from the truncated one
SignedRaw(sig, v) ==
    (IF SignBit \in v THEN Sub64(v, Not64(i64_mask(sig.length, 0))) ELSE v)
        \cap i64_mask(sig.length, 0)

\* `value >>= 1` in the Little loop: logical for u64, arithmetic for i64
ShiftRight1(sig, value) ==
    IF sig.kind = "Unsigned" THEN Shr64(value, 1) ELSE Sar64(value, 1)

\* The write loops run on a loop state st: res is OkUnit while the loop
\* runs and Panic once an unwrap or an overflow check failed, data is the
\* buffer as written so far.

\* Little: round i of the write loop, st.value the value shifted so far
LittleStep(sig, st, i, checks) ==
    IF checks /\ Wraps16(sig.start + i) THEN [st EXCEPT !.res = Panic]
    ELSE LET w == Bit_try_encode(W16(sig.start + i), st.data, 0 \in st.value)
         IN  IF ~IsOk(w.res) THEN [st EXCEPT !.res = Panic]
             ELSE [res |-> OkUnit, data |-> w.data, value |-> ShiftRight1(sig, st.value)]

RECURSIVE LittleLoop(_, _, _, _, _)
\* Little: rounds lo..hi-1 of the write loop, run as the first half of the
\* rounds and then the rest; nothing runs after a panic
LittleLoop(sig, st, lo, hi, checks) ==
    IF ~IsOk(st.res) \/ lo >= hi THEN st
    ELSE IF hi = lo + 1 THEN LittleStep(sig, st, lo, checks)
    ELSE LET Rest(half) == LittleLoop(sig, half, (lo + hi) \div 2, hi, checks)
         IN  Bind(LittleLoop(sig, st, lo, (lo + hi) \div 2, checks), Rest)

\* A faulty step that stays in the byte of `start`
NextBig_SameByte(start) ==
    IF start % ByteBits = 0 THEN start + (ByteBits - 1)
    ELSE start - 1

\* Big: the bit written after the one at `start`
NextBig(start) ==
    IF start % ByteBits = 0 THEN ((start \div ByteBits) + 1) * ByteBits + (ByteBits - 1)
    ELSE start - 1

\* Big: round i of the write loop, st.start the bit to write
BigStep(sig, st, i, checks) ==
    LET w == Bit_try_encode(st.start, st.data, (sig.length - 1 - i) \in st.value)
    IN  IF ~IsOk(w.res) THEN [st EXCEPT !.res = Panic]
        ELSE IF checks /\ Wraps16(NextBig(st.start))
        THEN [res |-> Panic, data |-> w.data, value |-> st.value, start |-> st.start]
        ELSE [res |-> OkUnit, data |-> w.data, value |-> st.value,
              start |-> W16(NextBig(st.start))]

RECURSIVE BigLoop(_, _, _, _, _)
\* Big: rounds lo..hi-1 of the write loop
BigLoop(sig, st, lo, hi, checks) ==
    IF ~IsOk(st.res) \/ lo >= hi THEN st
    ELSE IF hi = lo + 1 THEN BigStep(sig, st, lo, checks)
    ELSE LET Rest(half) == BigLoop(sig, half, (lo + hi) \div 2, hi, checks)
         IN  Bind(BigLoop(sig, st, lo, (lo + hi) \div 2, checks), Rest)

\* the write loop of try_encode: [res |-> result, data |-> the buffer afterwards]
WriteLoop(sig, data, raw, checks) ==
    LET st == IF sig.endian = "Little"
              THEN LittleLoop(sig, [res |-> OkUnit, data |-> data, value |-> raw],
                              0, sig.length, checks)
              ELSE BigLoop(sig, [res |-> OkUnit, data |-> data, value |-> raw,
                                 start |-> sig.start], 0, sig.length, checks)
    IN  [res |-> st.res, data |-> st.data]

\* the range check of try_encode: "panic", "MinError", "MaxError" or "pass"
RangeCheck(sig, value, checks) ==
    LET Above(hi) ==
            IF IsPanic(hi) THEN "panic"
            ELSE IF F64Less(hi.val, value) THEN "MaxError"
            ELSE "pass"
        Below(lo) ==
            IF IsPanic(lo) THEN "panic"
            ELSE IF F64Less(value, lo.val) THEN "MinError"
            ELSE Bind(max(sig, checks), Above)
    IN  Bind(min(sig, checks), Below)

Unsigned_try_encode(sig, data, value, checks) ==
    LET Write(raw) == WriteLoop(sig, data, raw, checks)
        Checked(range) ==
            IF range = "panic" THEN [res |-> Panic, data |-> data]
            ELSE IF range # "pass" THEN [res |-> Err(range), data |-> data]
            ELSE IF Avail(sig, data, checks) = "panic" THEN [res |-> Panic, data |-> data]
            ELSE IF Avail(sig, data, checks) = "fail"
            THEN [res |-> Err("NotEnoughData"), data |-> data]
            ELSE Bind(UnsignedRaw(sig, value), Write)
    IN  Bind(RangeCheck(sig, value, checks), Checked)

Signed_try_encode(sig, data, value, checks) ==
    LET Write(raw) == WriteLoop(sig, data, raw, checks)
        Truncated(v) ==
            IF SignedRawPanics(sig, v, checks) THEN [res |-> Panic, data |-> data]
            ELSE Bind(SignedRaw(sig, v), Write)
        Checked(range) ==
            IF range = "panic" THEN [res |-> Panic, data |-> data]
            ELSE IF range # "pass" THEN [res |-> Err(range), data |-> data]
            ELSE IF Avail(sig, data, checks) = "panic" THEN [res |-> Panic, data |-> data]
            ELSE IF Avail(sig, data, checks) = "fail"
            THEN [res |-> Err("NotEnoughData"), data |-> data]
            ELSE Bind(SignedTrunc(sig, value), Truncated)
    IN  Bind(RangeCheck(sig, value, checks), Checked)

try_encode(sig, data, value, checks) ==
    IF sig.kind = "Unsigned" THEN Unsigned_try_encode(sig, data, value, checks)
    ELSE Signed_try_encode(sig, data, value, checks)

\* ------------------------------------------------------------------------
\* decode.rs, encode.rs: the wrappers that panic on failure
\* ------------------------------------------------------------------------
\* Decode::decode on the result of self.try_decode(data): the value, or a panic
decode(tried) == IF IsOk(tried) THEN tried ELSE Panic

\* Encode::encode on the result [res, data] of self.try_encode(data, value)
encode(tried) == IF IsOk(tried.res) THEN tried ELSE [res |-> Panic, data |-> tried.data]

\* T::default() of the value types: 0.0 for f64, false for bool
f64_default == MkF64(FALSE, {})

bool_default == FALSE

\* DefaultDecode::default_decode on the result of self.try_decode(data): the
\* value, or the default of the value type for Err; a try_decode that does
\* not return does not let default_decode return
default_decode(tried, default) ==
    IF IsOk(tried) THEN tried
    ELSE IF IsPanic(tried) THEN Panic
    ELSE Ok(default)

\* ------------------------------------------------------------------------
\* logging.rs: text.  A str is the sequence of its characters, a character
\* a string of length one; the texts of the model are ASCII
\* ------------------------------------------------------------------------
\* the digits of `{:X}`, and the other case that parsing accepts as well
UpperHex == <<"0", "1", "2", "3", "4", "5", "6", "7", "8", "9", "A", "B", "C", "D", "E", "F">>

LowerHex == <<"0", "1", "2", "3", "4", "5", "6", "7", "8", "9", "a", "b", "c", "d", "e", "f">>

\* char::to_digit(radix): the value of the digit c, -1 for None
to_digit(c, radix) ==
    IF \E k \in 1..radix : UpperHex[k] = c \/ LowerHex[k] = c
    THEN (CHOOSE k \in 1..radix : UpperHex[k] = c \/ LowerHex[k] = c) - 1
    ELSE -1

RECURSIVE split(_, _)
\* str::split(sep): the pieces between the separators, one more than there
\* are separators
split(s, sep) ==
    IF \A j \in 1..Len(s) : s[j] # sep THEN <<s>>
    ELSE LET k == CHOOSE j \in 1..Len(s) : s[j] = sep /\ \A i \in 1..(j - 1) : s[i] # sep
         IN  <<SubSeq(s, 1, k - 1)>> \o split(SubSeq(s, k + 1, Len(s)), sep)

\* the text of an unsigned number without the one `+` it may start with
StripPlus(e) == IF Len(e) > 0 /\ e[1] = "+" THEN Tail(e) ELSE e

\* the text is an unsigned number in the radix: digits, at least one
IsNumber(e, radix) ==
    /\ StripPlus(e) # <<>>
    /\ \A j \in 1..Len(StripPlus(e)) : to_digit(StripPlus(e)[j], radix) >= 0

\* the bit pattern of a sequence of hexadecimal digits
HexBits(body) ==
    UNION {ShlSet(BitsOf(to_digit(body[j], 16), 4), 4 * (Len(body) - j)) : j \in 1..Len(body)}

\* u8 / u32::from_str_radix(e, 16) for a w-bit type: Err for a text that is
\* not a number or that does not fit w bits
from_str_radix(e, w) ==
    IF ~IsNumber(e, 16) THEN Err("ParseIntError")
    ELSE IF ~(HexBits(StripPlus(e)) \subseteq 0..(w - 1)) THEN Err("ParseIntError")
    ELSE Ok(HexBits(StripPlus(e)))

RECURSIVE DecValue(_)
\* the value of a sequence of decimal digits
DecValue(body) ==
    IF body = <<>> THEN 0
    ELSE 10 * DecValue(SubSeq(body, 1, Len(body) - 1)) + to_digit(body[Len(body)], 10)

\* str::parse::<usize>(), for texts short enough not to overflow
parse_usize(e) ==
    IF ~IsNumber(e, 10) THEN Err("ParseIntError")
    ELSE Ok(DecValue(StripPlus(e)))

\* `&s[1..s.len() - 1]` panics: for the empty text `s.len() - 1` underflows
\* (with overflow checks) or the range ends beyond the text (without), and
\* for a text of one character the range starts after its end
InnerPanics(s) == Len(s) < 2

\* `&s[1..s.len() - 1]`: the text without its first and last character
Inner(s) == SubSeq(s, 2, Len(s) - 1)

\* the value of the hexadecimal digit k of a bit pattern
Nibble(bits, k) ==
    (IF 4 * k \in bits THEN 1 ELSE 0) + (IF 4 * k + 1 \in bits THEN 2 ELSE 0)
        + (IF 4 * k + 2 \in bits THEN 4 ELSE 0) + (IF 4 * k + 3 \in bits THEN 8 ELSE 0)

\* `{:0nX}`: the upper-case hexadecimal digits of a bit pattern, padded with
\* zeros to n digits
UpperHexFmt(bits, n) ==
    LET d == IF BitLen(bits) > 4 * n THEN (BitLen(bits) + 3) \div 4 ELSE n
    IN  [j \in 1..d |-> UpperHex[Nibble(bits, d - j) + 1]]

RECURSIVE Display(_)
\* `{}` of a usize: its decimal digits
Display(n) ==
    IF n < 10 THEN <<UpperHex[n + 1]>>
    ELSE Display(n \div 10) \o <<UpperHex[(n % 10) + 1]>>

RECURSIVE join(_, _)
\* [String]::join(sep)
join(strs, sep) ==
    IF strs = <<>> THEN <<>>
    ELSE IF Len(strs) = 1 THEN strs[1]
    ELSE strs[1] \o sep \o join(Tail(strs), sep)

\* ------------------------------------------------------------------------
\* logging.rs: CANDumpEntry
\* ------------------------------------------------------------------------
CANDumpEntry_new(interface, can_id, data) ==
    IF interface = <<>> THEN Err("EmptyInterface")
    ELSE Ok([kind |-> "CANDumpEntry", interface |-> interface, can_id |-> can_id,
             data |-> data])

\* FromStr for CANDumpEntry; splits.get(0) is always Some, as split yields
\* at least one piece
CANDumpEntry_from_str(s) ==
    LET splits == split(s, " ")
        Built(made) == IF IsOk(made) THEN made ELSE Err(<<"ConstructionError", made.err>>)
    IN  IF Len(splits) < 2 \/ ~IsOk(from_str_radix(splits[2], 4 * ByteBits))
        THEN Err("MissingCanIdData")
        ELSE IF Len(splits) < 3 THEN Err("MissingDlcData")
        ELSE IF InnerPanics(splits[3]) THEN Panic
        ELSE IF ~IsOk(parse_usize(Inner(splits[3]))) THEN Err("ParseDlcError")
        ELSE IF \E j \in 4..Len(splits) : ~IsOk(from_str_radix(splits[j], ByteBits))
        THEN Err("ParseCanDataError")
        ELSE IF parse_usize(Inner(splits[3])).val # Len(splits) - 3 THEN Err("DlcDataMismatch")
        ELSE Built(CANDumpEntry_new(splits[1], from_str_radix(splits[2], 4 * ByteBits).val,
                    [j \in 1..(Len(splits) - 3) |-> from_str_radix(splits[j + 3], ByteBits).val]))

\* ToString for CANDumpEntry: "{} {:08X} [{}] {}"
CANDumpEntry_to_string(e) ==
    e.interface \o <<" ">> \o UpperHexFmt(e.can_id, 8) \o <<" ", "[">>
        \o Display(Len(e.data)) \o <<"]", " ">>
        \o join([j \in 1..Len(e.data) |-> UpperHexFmt(e.data[j], 2)], <<" ">>)

\* ------------------------------------------------------------------------
\* logging.rs: CANDumpLogEntry
\* ------------------------------------------------------------------------
\* the text without the sign it may start with
StripSign(e) == IF Len(e) > 0 /\ e[1] \in {"+", "-"} THEN Tail(e) ELSE e

\* the text is a decimal number: digits around at most one point, at least
\* one digit
IsDecimal(body) ==
    /\ \A j \in 1..Len(body) : body[j] = "." \/ to_digit(body[j], 10) >= 0
    /\ Cardinality({j \in 1..Len(body) : body[j] = "."}) <= 1
    /\ \E j \in 1..Len(body) : body[j] # "."

\* the digits before the point of a decimal number
WholePart(body) ==
    IF \E j \in 1..Len(body) : body[j] = "."
    THEN SubSeq(body, 1, (CHOOSE j \in 1..Len(body) : body[j] = ".") - 1)
    ELSE body

RECURSIVE TrimZeros(_)
\* digits without the zeros at their end
TrimZeros(digits) ==
    IF digits # <<>> /\ digits[Len(digits)] = "0"
    THEN TrimZeros(SubSeq(digits, 1, Len(digits) - 1))
    ELSE digits

\* the digits after the point of a decimal number, without the zeros at the end
FracPart(body) ==
    IF \E j \in 1..Len(body) : body[j] = "."
    THEN TrimZeros(SubSeq(body, (CHOOSE j \in 1..Len(body) : body[j] = ".") + 1, Len(body)))
    ELSE <<>>

\* str::parse::<f64>() on the texts of the model: a sign, then nan, inf,
\* infinity or a decimal number without exponent, short enough to be read
\* exactly; the number is kept as its whole part and its fraction digits
parse_f64(e) ==
    IF StripSign(e) = <<"n", "a", "n">> THEN Ok([class |-> "nan"])
    ELSE IF StripSign(e) \in {<<"i", "n", "f">>, <<"i", "n", "f", "i", "n", "i", "t", "y">>}
    THEN Ok([class |-> "inf", neg |-> e[1] = "-"])
    ELSE IF ~IsDecimal(StripSign(e)) THEN Err("ParseFloatError")
    ELSE Ok([class |-> "num", neg |-> e[1] = "-",
             whole |-> DecValue(WholePart(StripSign(e))), frac |-> FracPart(StripSign(e))])

\* the Option values
Some(v) == [tag |-> "Some", val |-> v]

None == [tag |-> "None"]

CANDumpLogEntry_new(timestamp, interface, can_id, data, flag) ==
    IF timestamp.class \in {"nan", "inf"} THEN Err("InvalidTimestamp")
    ELSE IF interface = <<>> THEN Err("EmptyInterface")
    ELSE IF flag.tag = "Some" /\ ~(flag.val \subseteq 0..3) THEN Err("InvalidFlagValue")
    ELSE Ok([kind |-> "CANDumpLogEntry", timestamp |-> timestamp, interface |-> interface,
             can_id |-> can_id, data |-> data, flag |-> flag])

\* the data bytes of FromStr for CANDumpLogEntry: the digit pairs of the
\* text from character from + 1 on, a last single character is left out;
\* "Err" if a pair is not a byte
PairBytes(text, from) ==
    LET n == (Len(text) - from) \div 2
        pair(i) == SubSeq(text, from + 2 * i + 1, from + 2 * i + 2)
    IN  IF \E i \in 0..(n - 1) : ~IsOk(from_str_radix(pair(i), ByteBits))
        THEN Err("ParseCanDataError")
        ELSE Ok([i \in 1..n |-> from_str_radix(pair(i - 1), ByteBits).val])

\* FromStr for CANDumpLogEntry; splits.get(0) is always Some, and so are the
\* get() on the pieces of can_data in the arms that matched their number
CANDumpLogEntry_from_str(s) ==
    LET all == split(s, " ")
        splits == SubSeq(all, 1, IF Len(all) < 3 THEN Len(all) ELSE 3)
        Built(made) == IF IsOk(made) THEN made ELSE Err(<<"ConstructionError", made.err>>)
        Compound(timestamp, interface, can_data) ==
            LET pieces == split(can_data, "#")
                can_data_splits == SubSeq(pieces, 1, IF Len(pieces) < 3 THEN Len(pieces) ELSE 3)
                can_id == from_str_radix(can_data_splits[1], 4 * ByteBits)
            IN  IF Len(can_data_splits) = 2
                THEN IF ~IsOk(can_id) THEN Err("ParseCanIdError")
                     ELSE IF ~IsOk(PairBytes(can_data_splits[2], 0)) THEN Err("ParseCanDataError")
                     ELSE Built(CANDumpLogEntry_new(timestamp, interface, can_id.val,
                                    PairBytes(can_data_splits[2], 0).val, None))
                ELSE IF Len(can_data_splits) = 3
                THEN IF ~IsOk(can_id) THEN Err("ParseCanIdError")
                     ELSE IF can_data_splits[3] = <<>> THEN Err("MissingFlagData")
                     ELSE IF ~IsOk(from_str_radix(SubSeq(can_data_splits[3], 1, 1), ByteBits))
                     THEN Err("ParseFlagError")
                     ELSE IF ~IsOk(PairBytes(can_data_splits[3], 1)) THEN Err("ParseCanDataError")
                     ELSE Built(CANDumpLogEntry_new(timestamp, interface, can_id.val,
                                    PairBytes(can_data_splits[3], 1).val,
                                    Some(from_str_radix(SubSeq(can_data_splits[3], 1, 1),
                                                        ByteBits).val)))
                ELSE Err("Unspecified")
    IN  IF InnerPanics(splits[1]) THEN Panic
        ELSE IF ~IsOk(parse_f64(Inner(splits[1]))) THEN Err("ParseTimestampError")
        ELSE IF Len(splits) < 2 THEN Err("MissingInterfaceData")
        ELSE IF Len(splits) < 3 THEN Err("MissingCompoundCanData")
        ELSE Compound(parse_f64(Inner(splits[1])).val, splits[2], splits[3])

\* ------------------------------------------------------------------------
\* logging.rs: the iterators over the lines of a file.  A line is what
\* Lines::next gives: Ok of the text, or Err for a failed read
\* ------------------------------------------------------------------------
\* line.parse::<Self::Item>() of the iterator
ParseLine(kind, text) ==
    IF kind = "CANDumpIterator" THEN CANDumpEntry_from_str(text)
    ELSE CANDumpLogEntry_from_str(text)

RECURSIVE Iterator_next(_, _)
\* Iterator::next of CANDumpIterator and CANDumpLogIterator: the loop takes
\* lines until one parses or none is left:
\* [res |-> Some(entry), None or a panic, lines |-> the lines not yet taken]
Iterator_next(kind, lines) ==
    IF lines = <<>> THEN [res |-> None, lines |-> lines]
    ELSE IF ~IsOk(Head(lines)) THEN Iterator_next(kind, Tail(lines))
    ELSE LET Parsed(entry) ==
                IF IsOk(entry) THEN [res |-> Some(entry.val), lines |-> Tail(lines)]
                ELSE IF IsPanic(entry) THEN [res |-> Panic, lines |-> Tail(lines)]
                ELSE Iterator_next(kind, Tail(lines))
         IN  Bind(ParseLine(kind, Head(lines).val), Parsed)

\* ------------------------------------------------------------------------
\* The client: one descriptor, one buffer, and the calls made on them
\* ------------------------------------------------------------------------
VARIABLES
    sig,     \* the descriptor built by new, NoSig before
    data,    \* the buffer: a sequence of bytes
    op,      \* the last call: [name, arg, res, before]
    enc,     \* the value held by the buffer since the last Ok try_encode, NoValue if none
    calls,   \* number of calls made so far
    nenc     \* number of try_encode calls made so far

vars == <<sig, data, op, enc, calls, nenc>>

NoSig == [kind |-> "None"]

NoValue == [neg |-> FALSE, mag |-> {-1}]

Kinds == {"Unsigned", "Signed"}

Endians == {"Little", "Big"}

\* start bits: byte aligned, inside a byte, the top bit of byte 0, the last u16
Starts == {0, 1, 7, U16Mod - 1}

\* lengths: the rejected 0 and MaxLength + 1, and admitted ones up to MaxLength
Lengths == {0, 1, 4, ByteBits, MaxLength, MaxLength + 1}

\* (factor, offset) pairs
Scalings == {<<1, 0>>, <<3, -2>>}

\* buffer lengths in bytes: empty, one byte, a full frame, one byte more
Dlcs == {0, 1, ScratchLen, ScratchLen + 1}

\* the byte a buffer is filled with before the calls: 0xA5, so that a call
\* can both set and clear bits
Fill == {0, 2, 5, 7}

Buffers == {[j \in 1..n |-> Fill] : n \in Dlcs}

\* the raw numbers try_encode is fed, before scaling: the ends and the middle
\* of the range of the descriptor, and one number on either side of it
RawInputs(d) ==
    IF d.kind = "Unsigned"
    THEN {MkF64(TRUE, {0}), MkF64(FALSE, {}), MkF64(FALSE, {0}),
          MkF64(FALSE, {d.length - 1}), MkF64(FALSE, 0..(d.length - 1)),
          MkF64(FALSE, {d.length + 1})}
    ELSE {MkF64(TRUE, {d.length + 1}), MkF64(TRUE, {d.length - 1}), MkF64(TRUE, {0}),
          MkF64(FALSE, {}), MkF64(FALSE, {0}), MkF64(FALSE, 0..(d.length - 2)),
          MkF64(FALSE, {d.length + 1})}

\* values between two steps of the scaling, one above the step of raw 1 and
\* one below the step of raw -1; there are none for factor 1
OffGrid(d) ==
    IF d.factor = 1 THEN {}
    ELSE IF d.kind = "Unsigned" THEN {F64Add(Scale(MkF64(FALSE, {0}), d), IntF64(1))}
    ELSE {F64Sub(Scale(MkF64(TRUE, {0}), d), IntF64(1))}

\* the values try_encode is called with
Values(d) == {Scale(r, d) : r \in RawInputs(d)} \cup OffGrid(d)

Call(name, arg, res, before) == [name |-> name, arg |-> arg, res |-> res, before |-> before]

Init ==
    /\ sig = NoSig
    /\ data \in Buffers
    /\ op = Call("init", <<>>, OkUnit, <<>>)
    /\ enc = NoValue
    /\ calls = 0
    /\ nenc = 0

\* the outcomes of a call over the two builds, overflow checks on and off:
\* the builds differ only where a check fires, and a check that fires aborts
\* the call, so a call that returns under the checks has that one outcome
Builds(F(_), Aborted(_)) ==
    LET Unchecked(checked) == IF Aborted(checked) THEN {checked, F(FALSE)} ELSE {checked}
    IN  Bind(F(TRUE), Unchecked)

\* the process runs (no call has panicked) and makes one more call
Calling ==
    /\ ~IsPanic(op.res)
    /\ calls < MaxCalls
    /\ calls' = calls + 1

\* Unsigned::new / Signed::new
New ==
    /\ Calling
    /\ sig = NoSig
    /\ \E kind \in Kinds, start \in Starts, length \in Lengths, sc \in Scalings, endian \in Endians :
        LET res == IF kind = "Unsigned"
                   THEN Unsigned_new(start, length, sc[1], sc[2], endian)
                   ELSE Signed_new(start, length, sc[1], sc[2], endian)
        IN  /\ op' = Call("new", <<kind, start, length, sc[1], sc[2], endian>>, res, data)
            /\ sig' = IF IsOk(res) THEN res.val ELSE NoSig
    /\ UNCHANGED <<data, enc, nenc>>

\* Min::min
GetMin ==
    /\ Calling
    /\ sig.kind \in Kinds
    /\ \E r \in Builds(LAMBDA checks : min(sig, checks), IsPanic) :
        op' = Call("min", <<>>, r, data)
    /\ UNCHANGED <<sig, data, enc, nenc>>

\* Max::max
GetMax ==
    /\ Calling
    /\ sig.kind \in Kinds
    /\ \E r \in Builds(LAMBDA checks : max(sig, checks), IsPanic) :
        op' = Call("max", <<>>, r, data)
    /\ UNCHANGED <<sig, data, enc, nenc>>

\* TryEncode::try_encode
TryEncode ==
    /\ Calling
    /\ sig.kind \in Kinds
    /\ nenc < MaxEncodes
    /\ nenc' = nenc + 1
    /\ \E value \in Values(sig) :
        \E r \in Builds(LAMBDA checks : try_encode(sig, data, value, checks),
                        LAMBDA w : IsPanic(w.res)) :
            /\ op' = Call("try_encode", value, r.res, data)
            /\ data' = r.data
            /\ enc' = IF IsOk(r.res) THEN value ELSE NoValue
    /\ UNCHANGED sig

\* TryDecode::try_decode
TryDecode ==
    /\ Calling
    /\ sig.kind \in Kinds
    /\ \E r \in Builds(LAMBDA checks : try_decode(sig, data, checks), IsPanic) :
        op' = Call("try_decode", <<>>, r, data)
    /\ UNCHANGED <<sig, data, enc, nenc>>

\* Bit::new
BitNew ==
    /\ Calling
    /\ sig = NoSig
    /\ \E start \in Starts :
        /\ op' = Call("Bit::new", <<start>>, Ok(Bit_new(start)), data)
        /\ sig' = Bit_new(start)
    /\ UNCHANGED <<data, enc, nenc>>

\* TryEncode::try_encode of Bit
BitTryEncode ==
    /\ Calling
    /\ sig.kind = "Bit"
    /\ nenc < MaxEncodes
    /\ nenc' = nenc + 1
    /\ \E value \in BOOLEAN :
        \E r \in {Bit_try_encode(sig.start, data, value)} :
            /\ op' = Call("Bit::try_encode", value, r.res, data)
            /\ data' = r.data
            /\ enc' = IF IsOk(r.res) THEN [bit |-> value] ELSE NoValue
    /\ UNCHANGED sig

\* TryDecode::try_decode of Bit
BitTryDecode ==
    /\ Calling
    /\ sig.kind = "Bit"
    /\ op' = Call("Bit::try_decode", <<>>, Bit_try_decode(sig.start, data), data)
    /\ UNCHANGED <<sig, data, enc, nenc>>

Next ==
    \/ New \/ GetMin \/ GetMax \/ TryEncode \/ TryDecode
    \/ BitNew \/ BitTryEncode \/ BitTryDecode

\* buffer lengths for a Bit: as above, and the first length whose bit count
\* 8 * dlc leaves u16
BitDlcs == Dlcs \cup {U16Mod \div ByteBits}

BitBuffers == {[j \in 1..n |-> Fill] : n \in BitDlcs}

\* a client that works with a Bit on a buffer of any of these lengths
InitBit ==
    /\ sig = NoSig
    /\ data \in BitBuffers
    /\ op = Call("init", <<>>, OkUnit, <<>>)
    /\ enc = NoValue
    /\ calls = 0
    /\ nenc = 0

\* Decode::decode
Decode ==
    /\ Calling
    /\ sig.kind \in Kinds
    /\ \E r \in Builds(LAMBDA checks : decode(try_decode(sig, data, checks)), IsPanic) :
        op' = Call("decode", <<>>, r, data)
    /\ UNCHANGED <<sig, data, enc, nenc>>

\* Encode::encode
Encode ==
    /\ Calling
    /\ sig.kind \in Kinds
    /\ nenc < MaxEncodes
    /\ nenc' = nenc + 1
    /\ \E value \in Values(sig) :
        \E r \in Builds(LAMBDA checks : encode(try_encode(sig, data, value, checks)),
                        LAMBDA w : IsPanic(w.res)) :
            /\ op' = Call("encode", value, r.res, data)
            /\ data' = r.data
            /\ enc' = IF IsOk(r.res) THEN value ELSE NoValue
    /\ UNCHANGED sig

\* Decode::decode of Bit
BitDecode ==
    /\ Calling
    /\ sig.kind = "Bit"
    /\ op' = Call("Bit::decode", <<>>, decode(Bit_try_decode(sig.start, data)), data)
    /\ UNCHANGED <<sig, data, enc, nenc>>

\* Encode::encode of Bit
BitEncode ==
    /\ Calling
    /\ sig.kind = "Bit"
    /\ nenc < MaxEncodes
    /\ nenc' = nenc + 1
    /\ \E value \in BOOLEAN :
        \E r \in {encode(Bit_try_encode(sig.start, data, value))} :
            /\ op' = Call("Bit::encode", value, r.res, data)
            /\ data' = r.data
            /\ enc' = IF IsOk(r.res) THEN [bit |-> value] ELSE NoValue
    /\ UNCHANGED sig

\* DefaultDecode::default_decode
DefaultDecode ==
    /\ Calling
    /\ sig.kind \in Kinds
    /\ \E r \in Builds(LAMBDA checks : default_decode(try_decode(sig, data, checks), f64_default),
                       IsPanic) :
        op' = Call("default_decode", <<>>, r, data)
    /\ UNCHANGED <<sig, data, enc, nenc>>

\* DefaultDecode::default_decode of Bit
BitDefaultDecode ==
    /\ Calling
    /\ sig.kind = "Bit"
    /\ op' = Call("Bit::default_decode", <<>>,
                  default_decode(Bit_try_decode(sig.start, data), bool_default), data)
    /\ UNCHANGED <<sig, data, enc, nenc>>

\* a client that decodes with a default
NextDefault == New \/ BitNew \/ DefaultDecode \/ BitDefaultDecode

SpecDefault == Init /\ [][NextDefault]_vars

\* a client that uses the panicking wrappers
NextPanicking == New \/ BitNew \/ Decode \/ Encode \/ BitDecode \/ BitEncode

SpecPanicking == Init /\ [][NextPanicking]_vars

\* ------------------------------------------------------------------------
\* A caller of Mask: an integer type, and one call of a function of the trait
\* on it (the functions keep no state, a run is one call)
\* ------------------------------------------------------------------------
\* lengths and shifts handed to mask: all that fit the type, and one beyond
MaskLengths(w) == 0..(w + 1)

MaskShifts(w) == 0..w

\* the indices lo, lo + 1, .., lo + n - 1 as a slice
Run(lo, n) == [j \in 1..n |-> lo + j - 1]

\* slices handed to bit_mask: runs from either end of the type, the slice of
\* the documentation, a repeated index, the empty slice, an index beyond
BitSlices(w) ==
    {Run(0, n) : n \in {0, 1, w - 1, w, w + 1}}
        \cup {Run(w - n, n) : n \in {1, 4}}
        \cup {<<7, 4, 3, 0>>, <<3, 3>>, <<w - 1, 0>>}

InitMask ==
    /\ \E w \in Widths, signed \in BOOLEAN :
        sig = [kind |-> "Mask", width |-> w, signed |-> signed]
    /\ data = <<>>
    /\ op = Call("init", <<>>, OkUnit, <<>>)
    /\ enc = NoValue
    /\ calls = 0
    /\ nenc = 0

\* Mask::mask
MaskCall ==
    /\ Calling
    /\ calls = 0
    /\ \E length \in MaskLengths(sig.width), shift \in MaskShifts(sig.width) :
        \E r \in Builds(LAMBDA checks : Mask_mask(length, shift, sig.width, sig.signed, checks),
                        IsPanic) :
            op' = Call("mask", <<length, shift>>, r, data)
    /\ UNCHANGED <<sig, data, enc, nenc>>

\* Mask::bit_mask
BitMaskCall ==
    /\ Calling
    /\ calls = 0
    /\ \E bits \in BitSlices(sig.width) :
        \E r \in Builds(LAMBDA checks : Mask_bit_mask(bits, sig.width, checks), IsPanic) :
            op' = Call("bit_mask", bits, r, data)
    /\ UNCHANGED <<sig, data, enc, nenc>>

\* Mask::full_mask
FullMaskCall ==
    /\ Calling
    /\ calls = 0
    /\ op' = Call("full_mask", <<>>, Mask_full_mask(sig.width), data)
    /\ UNCHANGED <<sig, data, enc, nenc>>

NextMask == MaskCall \/ BitMaskCall \/ FullMaskCall

SpecMask == InitMask /\ [][NextMask]_vars

\* ------------------------------------------------------------------------
\* A user of CANDumpEntry: an entry is built, written as text, and texts are
\* parsed
\* ------------------------------------------------------------------------
\* interface names: "can0", "v", and the empty one that new refuses
Interfaces == {<<"c", "a", "n", "0">>, <<"v">>, <<>>}

\* frame identifiers: 0, 0x42, 0x1337, the largest extended one, the largest u32
CanIds == {{}, BitsOf(66, 2 * ByteBits), BitsOf(4919, 2 * ByteBits), 0..28, 0..(4 * ByteBits - 1)}

\* payloads of 0, 1, 2, 8 and 10 bytes
Payloads ==
    {<<>>, <<BitsOf(1, ByteBits)>>, <<Fill, BitsOf(15, ByteBits)>>,
     [j \in 1..ScratchLen |-> BitsOf(j, ByteBits)],
     [j \in 1..(ScratchLen + 2) |-> BitsOf(16 * j, ByteBits)]}

\* "can0 00000042 [0]"
LineNoData == <<"c", "a", "n", "0", " ", "0", "0", "0", "0", "0", "0", "4", "2", " ", "[", "0", "]">>

\* "can0 1FF [1] 01"
LineOneByte == <<"c", "a", "n", "0", " ", "1", "F", "F", " ", "[", "1", "]", " ", "0", "1">>

\* "can0 00001337 [2] 01"
LineMismatch == <<"c", "a", "n", "0", " ", "0", "0", "0", "0", "1", "3", "3", "7", " ", "[", "2", "]", " ", "0", "1">>

\* "vcan0 +1337 [+2] a5 0F"
LineLowerCase == <<"v", "c", "a", "n", "0", " ", "+", "1", "3", "3", "7", " ", "[", "+", "2", "]", " ", "a", "5", " ", "0", "F">>

\* "can0 42  01": the [dlc] token is empty
LineEmptyDlc == <<"c", "a", "n", "0", " ", "4", "2", " ", " ", "0", "1">>

\* "can0 42 ] 01": the [dlc] token is one character long
LineShortDlc == <<"c", "a", "n", "0", " ", "4", "2", " ", "]", " ", "0", "1">>

\* "can0 42 [x]"
LineBadDlc == <<"c", "a", "n", "0", " ", "4", "2", " ", "[", "x", "]">>

\* "can0 1FFFFFFFF [0]": the identifier does not fit u32
LineWideId == <<"c", "a", "n", "0", " ", "1", "F", "F", "F", "F", "F", "F", "F", "F", " ", "[", "0", "]">>

\* "can0 42 [1] 1FF": the byte does not fit u8
LineWideByte == <<"c", "a", "n", "0", " ", "4", "2", " ", "[", "1", "]", " ", "1", "F", "F">>

\* " 42 [0]": the interface is empty
LineNoInterface == <<" ", "4", "2", " ", "[", "0", "]">>

\* "can0 42"
LineNoDlc == <<"c", "a", "n", "0", " ", "4", "2">>

\* the texts handed to the parser of CANDumpEntry
CANDumpLines ==
    {<<>>, LineNoData, LineOneByte, LineMismatch, LineLowerCase, LineEmptyDlc, LineShortDlc,
     LineBadDlc, LineWideId, LineWideByte, LineNoInterface, LineNoDlc}

\* CANDumpEntry::new
CANDumpEntryNew ==
    /\ Calling
    /\ sig = NoSig
    /\ \E interface \in Interfaces, can_id \in CanIds, payload \in Payloads :
        LET res == CANDumpEntry_new(interface, can_id, payload)
        IN  /\ op' = Call("CANDumpEntry::new", <<interface, can_id, payload>>, res, data)
            /\ sig' = IF IsOk(res) THEN res.val ELSE NoSig
    /\ UNCHANGED <<data, enc, nenc>>

\* ToString::to_string of the entry
CANDumpEntryToString ==
    /\ Calling
    /\ sig.kind = "CANDumpEntry"
    /\ op' = Call("to_string", <<>>, Ok(CANDumpEntry_to_string(sig)), data)
    /\ UNCHANGED <<sig, data, enc, nenc>>

\* FromStr::from_str: of the text to_string has just returned, or of a line
CANDumpEntryFromStr ==
    /\ Calling
    /\ \E s \in CANDumpLines \cup (IF op.name = "to_string" THEN {op.res.val} ELSE {}) :
        op' = Call("from_str", s, CANDumpEntry_from_str(s), data)
    /\ UNCHANGED <<sig, data, enc, nenc>>

InitCandump ==
    /\ sig = NoSig
    /\ data = <<>>
    /\ op = Call("init", <<>>, OkUnit, <<>>)
    /\ enc = NoValue
    /\ calls = 0
    /\ nenc = 0

NextCandump == CANDumpEntryNew \/ CANDumpEntryToString \/ CANDumpEntryFromStr

SpecCandump == InitCandump /\ [][NextCandump]_vars

\* ------------------------------------------------------------------------
\* A client that writes one buffer repeatedly with one descriptor
\* ------------------------------------------------------------------------
\* the values written: the ends of the range of the descriptor, and the
\* value of raw 1
WriteValues(d) ==
    IF d.kind = "Unsigned"
    THEN {Scale(r, d) : r \in {MkF64(FALSE, {}), MkF64(FALSE, {0}),
                                MkF64(FALSE, 0..(d.length - 1))}}
    ELSE {Scale(r, d) : r \in {MkF64(TRUE, {d.length - 1}), MkF64(FALSE, {0}),
                                MkF64(FALSE, 0..(d.length - 2))}}

\* TryEncode::try_encode, on a buffer that earlier calls may have written
Rewrite ==
    /\ Calling
    /\ sig.kind \in Kinds
    /\ nenc < MaxWrites
    /\ nenc' = nenc + 1
    /\ \E value \in WriteValues(sig) :
        \E r \in Builds(LAMBDA checks : try_encode(sig, data, value, checks),
                        LAMBDA w : IsPanic(w.res)) :
            /\ op' = Call("try_encode", value, r.res, data)
            /\ data' = r.data
            /\ enc' = IF IsOk(r.res) THEN value ELSE enc
    /\ UNCHANGED sig

\* TryEncode::try_encode of Bit, on a buffer that earlier calls may have written
BitRewrite ==
    /\ Calling
    /\ sig.kind = "Bit"
    /\ nenc < MaxWrites
    /\ nenc' = nenc + 1
    /\ \E value \in BOOLEAN :
        \E r \in {Bit_try_encode(sig.start, data, value)} :
            /\ op' = Call("Bit::try_encode", value, r.res, data)
            /\ data' = r.data
            /\ enc' = IF IsOk(r.res) THEN [bit |-> value] ELSE enc
    /\ UNCHANGED sig

NextWrites == New \/ BitNew \/ Rewrite \/ BitRewrite

SpecWrites == Init /\ [][NextWrites]_vars

\* ------------------------------------------------------------------------
\* A client that keeps two signals in one buffer: sig is the pair of the
\* descriptors, enc the pair of the values their last Ok try_encode wrote
\* ------------------------------------------------------------------------
\* the descriptors the pairs are made of: bits, nibbles and bytes of the
\* first two bytes, of every kind and byte order
PairPool ==
    {Bit_new(0), Bit_new(12),
     Descriptor("Unsigned", 4, 4, 1, 0, "Little"), Descriptor("Unsigned", 8, 8, 3, -2, "Little"),
     Descriptor("Signed", 0, 4, 1, 0, "Little"),
     Descriptor("Unsigned", 7, 4, 1, 0, "Big"), Descriptor("Unsigned", 3, 4, 1, 0, "Big"),
     Descriptor("Signed", 15, 8, 1, 0, "Big")}

\* try_encode of any descriptor
EncodeAny(d, buf, value, checks) ==
    IF d.kind = "Bit" THEN Bit_try_encode(d.start, buf, value.bit)
    ELSE try_encode(d, buf, value, checks)

\* try_decode of any descriptor, a bool held as [bit |-> bool]
DecodeAny(d, buf, checks) ==
    IF d.kind = "Bit"
    THEN (IF IsOk(Bit_try_decode(d.start, buf))
          THEN Ok([bit |-> Bit_try_decode(d.start, buf).val])
          ELSE Bit_try_decode(d.start, buf))
    ELSE try_decode(d, buf, checks)

\* the values written by a descriptor
PairValues(d) ==
    IF d.kind = "Bit" THEN {[bit |-> b] : b \in BOOLEAN} ELSE WriteValues(d)

\* Bit::new, Unsigned::new, Signed::new: the two descriptors are built
PairNew ==
    /\ Calling
    /\ sig = NoSig
    /\ \E a \in PairPool :
        \E b \in PairPool \ {a} :
            /\ op' = Call("new", <<a, b>>, OkUnit, data)
            /\ sig' = [kind |-> "Pair", a |-> a, b |-> b]
    /\ enc' = [a |-> NoValue, b |-> NoValue]
    /\ UNCHANGED <<data, nenc>>

\* TryEncode::try_encode of one of the two descriptors
PairTryEncode ==
    /\ Calling
    /\ sig.kind = "Pair"
    /\ nenc < MaxWrites
    /\ nenc' = nenc + 1
    /\ \E which \in {"a", "b"} :
        \E value \in PairValues(sig[which]) :
            \E r \in Builds(LAMBDA checks : EncodeAny(sig[which], data, value, checks),
                            LAMBDA w : IsPanic(w.res)) :
                /\ op' = Call("try_encode", <<which, value>>, r.res, data)
                /\ data' = r.data
                /\ enc' = IF IsOk(r.res) THEN [enc EXCEPT ![which] = value] ELSE enc
    /\ UNCHANGED sig

\* TryDecode::try_decode of one of the two descriptors
PairTryDecode ==
    /\ Calling
    /\ sig.kind = "Pair"
    /\ \E which \in {"a", "b"} :
        \E r \in Builds(LAMBDA checks : DecodeAny(sig[which], data, checks), IsPanic) :
            op' = Call("try_decode", <<which>>, r, data)
    /\ UNCHANGED <<sig, data, enc, nenc>>

NextPair == PairNew \/ PairTryEncode \/ PairTryDecode

SpecPair == Init /\ [][NextPair]_vars

\* ------------------------------------------------------------------------
\* The client of the log readers: one iterator over the lines of a file,
\* next() called on it again and again
\* ------------------------------------------------------------------------
LogLineData == <<"(", "1", ".", "5", "0", ")", " ", "c", "a", "n", "0", " ", "1", "2", "3", "#", "0", "1", "A", "5">>

LogLineFlag == <<"(", "1", "2", ")", " ", "v", "c", "a", "n", "0", " ", "1", "F", "#", "#", "A", "0", "1", "0", "2">>

LogLineShortStamp == <<"(", " ", "c", "a", "n", "0", " ", "1", "2", "3", "#", "0", "1">>

LogLineBadStamp == <<"(", "1", ".", "2", ".", "3", ")", " ", "c", "a", "n", "0", " ", "1", "2", "3", "#", "0", "1">>

LogLineNan == <<"(", "n", "a", "n", ")", " ", "c", "a", "n", "0", " ", "1", "2", "3", "#", "0", "1">>

LogLineNoData == <<"(", "1", ")", " ", "c", "a", "n", "0">>

LogLineNoHash == <<"(", "1", ")", " ", "c", "a", "n", "0", " ", "1", "2", "3">>

LogLineBadByte == <<"(", "1", ")", " ", "c", "a", "n", "0", " ", "1", "2", "3", "#", "0", "G">>

BlankLine == <<>>

\* the lines a file is made of: texts, and a read that failed
FileLines(kind) ==
    {Err("io::Error"), Ok(BlankLine)} \cup
    (IF kind = "CANDumpIterator"
     THEN {Ok(l) : l \in {LineOneByte, LineMismatch, LineEmptyDlc, LineShortDlc, LineBadDlc}}
     ELSE {Ok(l) : l \in {LogLineData, LogLineFlag, LogLineShortStamp, LogLineBadStamp,
                          LogLineNan, LogLineNoData, LogLineNoHash, LogLineBadByte}})

Files(kind) == UNION {[1..n -> FileLines(kind)] : n \in 0..MaxLines}

\* CANDumpIterator and CANDumpLogIterator over the lines of an opened file
InitLog ==
    /\ \E kind \in {"CANDumpIterator", "CANDumpLogIterator"} :
        \E lines \in Files(kind) : sig = [kind |-> kind, lines |-> lines]
    /\ data = <<>>
    /\ op = Call("init", <<>>, OkUnit, <<>>)
    /\ enc = NoValue
    /\ calls = 0
    /\ nenc = 0

\* CANDumpIterator::next
CANDumpNext ==
    /\ Calling
    /\ sig.kind = "CANDumpIterator"
    /\ \E r \in {Iterator_next(sig.kind, sig.lines)} :
        /\ op' = Call("next", <<>>, r.res, sig.lines)
        /\ sig' = [sig EXCEPT !.lines = r.lines]
    /\ UNCHANGED <<data, enc, nenc>>

\* CANDumpLogIterator::next
CANDumpLogNext ==
    /\ Calling
    /\ sig.kind = "CANDumpLogIterator"
    /\ \E r \in {Iterator_next(sig.kind, sig.lines)} :
        /\ op' = Call("next", <<>>, r.res, sig.lines)
        /\ sig' = [sig EXCEPT !.lines = r.lines]
    /\ UNCHANGED <<data, enc, nenc>>

NextLog == CANDumpNext \/ CANDumpLogNext

\* the reader keeps calling next(): a call that may be made is made in the
\* end; every call of NextLog is a step of Calling, and one is possible
\* whenever Calling is
SpecLog == InitLog /\ [][NextLog]_vars /\ WF_calls(Calling)

NextBit == BitNew \/ BitTryEncode \/ BitTryDecode

SpecBit == InitBit /\ [][NextBit]_vars

Spec == Init /\ [][Next]_vars

\* ------------------------------------------------------------------------
\* What the specification says of the codec, in its own terms
\* ------------------------------------------------------------------------
\* the canonical position of a start bit under Big-endian numbering
CanonicalPos(start) == 8 * (start \div 8) + (7 - (start % 8))

\* Big: the buffer bit reached from `start` after i steps of the walk down
\* a byte and on to bit 7 of the next byte
BigBit(d, i) == 8 * ((CanonicalPos(d.start) + i) \div 8) + (7 - ((CanonicalPos(d.start) + i) % 8))

\* the buffer bits of the span of a descriptor
SpanBits(d) ==
    IF d.endian = "Little" THEN d.start..(d.start + d.length - 1)
    ELSE {BigBit(d, i) : i \in 0..(d.length - 1)}

\* the span of the descriptor lies inside the buffer
SpanFits(d, buf) ==
    IF d.endian = "Little" THEN d.start + d.length <= 8 * Len(buf)
    ELSE CanonicalPos(d.start) + d.length <= 8 * Len(buf)

\* the documented bounds: offset and (2^length - 1) * factor + offset for
\* Unsigned, -(2^(length-1)) * factor + offset and
\* (2^(length-1) - 1) * factor + offset for Signed
DocMin(d) ==
    IF d.kind = "Unsigned" THEN IntF64(d.offset)
    ELSE Scale(MkF64(TRUE, {d.length - 1}), d)

DocMax(d) ==
    IF d.kind = "Unsigned" THEN Scale(MkF64(FALSE, 0..(d.length - 1)), d)
    ELSE Scale(MkF64(FALSE, 0..(d.length - 2)), d)

InDocRange(d, v) == ~F64Less(v, DocMin(d)) /\ ~F64Less(DocMax(d), v)

\* the last call was try_encode with a representable value on a buffer the span fits
EncodedFitting ==
    op.name = "try_encode" /\ SpanFits(sig, op.before) /\ InDocRange(sig, op.arg)

\* the last call was try_decode on a buffer that holds an encoded value
DecodedAfterEncode == op.name = "try_decode" /\ enc # NoValue

\* C1: round trip, Unsigned Little-endian: on a buffer the span fits,
\* try_encode of a representable value returns Ok and a following
\* try_decode returns Ok of that value.
C1_RoundTripUnsignedLittle ==
    (sig.kind = "Unsigned" /\ sig.endian = "Little") =>
        /\ EncodedFitting => IsOk(op.res)
        /\ DecodedAfterEncode => op.res = Ok(enc)

\* C2: round trip, Big-endian, factor 1 and offset 0: for every start and
\* length whose span fits, try_encode followed by try_decode returns Ok of
\* the encoded value.
C2_RoundTripBig ==
    (sig.kind \in Kinds /\ sig.endian = "Big" /\ sig.factor = 1 /\ sig.offset = 0) =>
        /\ EncodedFitting => IsOk(op.res)
        /\ DecodedAfterEncode => op.res = Ok(enc)

\* C3: round trip, Signed Little-endian, length 1 included: try_encode of
\* a representable value returns Ok and a following try_decode returns Ok of
\* that value.
C3_RoundTripSignedLittle ==
    (sig.kind = "Signed" /\ sig.endian = "Little") =>
        /\ EncodedFitting => IsOk(op.res)
        /\ DecodedAfterEncode => op.res = Ok(enc)

BigRaw(d, buf) == {d.length - 1 - i : i \in {j \in 0..(d.length - 1) : BufBit(buf, BigBit(d, j))}}

\* C5: Big-endian decode reference, Unsigned with factor 1 and offset 0:
\* when the span fits, try_decode returns the integer read along the walk
\* from `start`, most significant bit first.
C5_BigDecodeReference ==
    (op.name = "try_decode" /\ sig.kind = "Unsigned" /\ sig.endian = "Big"
        /\ sig.factor = 1 /\ sig.offset = 0 /\ SpanFits(sig, data))
    => op.res = Ok(u64_as_f64(BigRaw(sig, data)))

\* the integer a Little-endian span holds: bit start + i has weight 2^i
LittleRaw(d, buf) == {i \in 0..(d.length - 1) : BufBit(buf, d.start + i)}

\* C6: Little-endian decode reference, Unsigned: when the span fits a
\* buffer of at most 8 bytes, try_decode returns Ok(raw * factor + offset),
\* raw being the sum of bit(start + i) * 2^i.
C6_LittleDecodeReference ==
    (op.name = "try_decode" /\ sig.kind = "Unsigned" /\ sig.endian = "Little"
        /\ SpanFits(sig, data) /\ Len(data) <= 8)
    => op.res = Ok(Scale(u64_as_f64(LittleRaw(sig, data)), sig))

\* C6 happens: a span that starts inside a byte and runs over several bytes
\* was decoded to a nonzero raw value, with a scaling
C6_Witness ==
    /\ op.name = "try_decode" /\ sig.kind = "Unsigned" /\ sig.endian = "Little"
    /\ SpanFits(sig, data) /\ Len(data) <= 8
    /\ sig.start % 8 # 0 /\ sig.length > 8 - (sig.start % 8) /\ sig.factor # 1
    /\ LittleRaw(sig, data) # {}

\* C7: construction boundary: new returns Err(LengthZero) for length 0,
\* Err(LengthGreater64) for length above 64, and Ok of the descriptor with
\* the given fields for every length in 1..64, whatever start, factor,
\* offset, endian and buffer.
C7_ConstructionBoundary ==
    op.name = "new" =>
        /\ op.arg[3] = 0 => op.res = Err("LengthZero")
        /\ op.arg[3] > 64 => op.res = Err("LengthGreater64")
        /\ op.arg[3] \in 1..64 =>
            op.res = Ok([kind |-> op.arg[1], start |-> op.arg[2], length |-> op.arg[3],
                         factor |-> op.arg[4], offset |-> op.arg[5], endian |-> op.arg[6]])

\* C7 happens: a descriptor of length 64 whose start lies beyond every
\* buffer was built while the buffer is empty
C7_Witness ==
    /\ op.name = "new" /\ IsOk(op.res)
    /\ op.arg[3] = 64 /\ op.arg[2] > 8 * 9
    /\ Len(data) = 0

\* C8: encode availability: on a buffer too short for the span, try_encode
\* returns Err(NotEnoughData) for every value and writes nothing.
C8_EncodeAvailability ==
    (op.name = "try_encode" /\ ~SpanFits(sig, op.before)) =>
        IsErr(op.res, "NotEnoughData") /\ data = op.before

\* C9: encode range validation: try_encode returns Err(MinError) for a
\* value below min and Err(MaxError) for a value above max, the buffer
\* unchanged; for a value in [min, max] neither is returned.
C9_EncodeRange ==
    op.name = "try_encode" =>
        /\ F64Less(op.arg, DocMin(sig)) => IsErr(op.res, "MinError") /\ data = op.before
        /\ F64Less(DocMax(sig), op.arg) => IsErr(op.res, "MaxError") /\ data = op.before
        /\ InDocRange(sig, op.arg) => ~IsErr(op.res, "MinError") /\ ~IsErr(op.res, "MaxError")

\* C10: Signed bounds: for every length in 1..64, min() returns
\* -(2^(length-1)) * factor + offset and max() returns
\* (2^(length-1) - 1) * factor + offset; neither call aborts.
C10_SignedBounds ==
    sig.kind = "Signed" =>
        /\ op.name = "min" => op.res = Ok(DocMin(sig))
        /\ op.name = "max" => op.res = Ok(DocMax(sig))

\* C11: Unsigned bounds: for every length in 1..64, min() returns offset
\* and max() returns (2^length - 1) * factor + offset.
C11_UnsignedBounds ==
    sig.kind = "Unsigned" =>
        /\ op.name = "min" => op.res = Ok(IntF64(sig.offset))
        /\ op.name = "max" => op.res = Ok(DocMax(sig))

\* C11 happens: max() was called on an Unsigned descriptor of length 64
\* with a factor and an offset
C11_Witness ==
    /\ sig.kind = "Unsigned" /\ op.name = "max" /\ IsOk(op.res)
    /\ sig.length = 64 /\ sig.factor # 1 /\ sig.offset # 0

\* C12: Little-endian decode availability: with start + length <= 65535
\* and a buffer of at most 8 bytes, try_decode returns Err(NotEnoughData)
\* exactly when start + length > 8 * dlc, and Ok otherwise.
C12_LittleDecodeAvailability ==
    (op.name = "try_decode" /\ sig.endian = "Little"
        /\ sig.start + sig.length <= 65535 /\ Len(data) <= 8)
    => IF sig.start + sig.length > 8 * Len(data) THEN IsErr(op.res, "NotEnoughData")
       ELSE IsOk(op.res)

\* C12 happens: a Signed span that ends one bit past a full buffer was refused
C12_Witness ==
    /\ op.name = "try_decode" /\ sig.kind = "Signed" /\ sig.endian = "Little"
    /\ Len(data) = 8 /\ sig.start + sig.length = 8 * Len(data) + 1
    /\ IsErr(op.res, "NotEnoughData")

\* C13: Big-endian availability: try_decode and try_encode fail with
\* NotEnoughData exactly when c + length > 8 * dlc, c being the canonical
\* position of start; when the check passes the call touches no byte
\* outside the buffer (it does not abort).
C13_BigAvailability ==
    (op.name \in {"try_decode", "try_encode"} /\ sig.endian = "Big") =>
        /\ IsErr(op.res, "NotEnoughData") <=> ~SpanFits(sig, op.before)
        /\ SpanFits(sig, op.before) => ~IsPanic(op.res)

\* C14: Bit decode: try_decode succeeds exactly when start < 8 * dlc and
\* then returns whether bit (start % 8) of byte (start / 8) is 1; when
\* start >= 8 * dlc it returns an error.
C14_BitDecode ==
    op.name = "Bit::try_decode" =>
        IF sig.start < 8 * Len(data) THEN op.res = Ok(BufBit(data, sig.start))
        ELSE op.res.tag = "Err"

\* the last call was Bit try_encode, and it kept to its bit: the buffer is
\* as long as before, the bit holds the value, every other bit is unchanged
BitWritten ==
    LET byte == (sig.start \div 8) + 1
        rest == (0..7) \ {sig.start % 8}
    IN  /\ IsOk(op.res)
        /\ Len(data) = Len(op.before)
        /\ BufBit(data, sig.start) = op.arg
        /\ data[byte] \cap rest = op.before[byte] \cap rest
        /\ \A j \in DOMAIN data : j # byte => data[j] = op.before[j]

\* C15: Bit encode: try_encode returns Err(NotEnoughData) with the buffer
\* unchanged when start / 8 >= dlc; otherwise it returns Ok, the bit holds
\* the value, every other bit is unchanged, and a following Bit try_decode
\* returns Ok of the value.
C15_BitEncode ==
    /\ op.name = "Bit::try_encode" =>
            IF sig.start \div 8 >= Len(op.before)
            THEN IsErr(op.res, "NotEnoughData") /\ data = op.before
            ELSE BitWritten
    /\ (op.name = "Bit::try_decode" /\ enc # NoValue) => op.res = Ok(enc.bit)

\* the two's-complement reading of a raw value of `length` bits, as a
\* double: raw - 2^length when bit length - 1 is set, raw otherwise
TwosComplement(raw, length) ==
    IF (length - 1) \in raw THEN MkF64(TRUE, MagAdd((0..(length - 1)) \ raw, {0}))
    ELSE MkF64(FALSE, raw)

\* C16: sign extension: with factor 1 and offset 0, a successful Signed
\* try_decode returns the two's-complement reading of the raw value that
\* the Unsigned descriptor of the same start, length and endian decodes
\* from the same buffer.
C16_SignExtension ==
    (op.name = "try_decode" /\ sig.kind = "Signed" /\ sig.factor = 1 /\ sig.offset = 0
        /\ IsOk(op.res))
    => op.res.val = TwosComplement(UnsignedConverted([sig EXCEPT !.kind = "Unsigned"], data),
                                   sig.length)

\* the Little-endian descriptor that mirrors a Big-endian one lying inside
\* a single byte: start - length + 1, same length
Mirror(d) == [d EXCEPT !.start = d.start - d.length + 1, !.endian = "Little"]

\* C17: endian symmetry within one byte: for 1 <= L <= (s % 8) + 1, the
\* Unsigned Big-endian descriptor (s, L) and the Unsigned Little-endian
\* descriptor (s - L + 1, L) decode the same integer from every buffer
\* that contains the byte.
C17_EndianSymmetry ==
    (op.name = "try_decode" /\ sig.kind = "Unsigned" /\ sig.endian = "Big"
        /\ sig.length <= (sig.start % 8) + 1 /\ sig.start \div 8 < Len(data))
    => \E checks \in BOOLEAN : op.res = try_decode(Mirror(sig), data, checks)

\* an exact integer as sign and magnitude
SM(neg, m) == [neg |-> neg /\ m # {}, mag |-> m]

\* exact x + y on integers
ExactAdd(x, y) ==
    IF x.neg = y.neg THEN SM(x.neg, MagAdd(x.mag, y.mag))
    ELSE IF MagLess(x.mag, y.mag) THEN SM(y.neg, MagSub(y.mag, x.mag))
    ELSE SM(x.neg, MagSub(x.mag, y.mag))

\* floor(n / k) for an exact integer n and k > 0
FloorDiv(n, k) ==
    LET d == MagDiv(n.mag, k)
    IN  IF n.neg /\ d.r # 0 THEN SM(TRUE, MagAdd(d.q, {0})) ELSE SM(n.neg, d.q)

\* floor((value - offset) / factor)
FloorRaw(d, value) == FloorDiv(ExactAdd(value, SM(d.offset > 0, BitsOf(Abs(d.offset), 16))), d.factor)

\* the raw integer lies in the raw range of the descriptor
FitsRaw(d, raw) ==
    IF d.kind = "Unsigned" THEN ~raw.neg /\ raw.mag \subseteq 0..(d.length - 1)
    ELSE IF raw.neg THEN ~MagLess({d.length - 1}, raw.mag)
    ELSE raw.mag \subseteq 0..(d.length - 2)

\* the bits of a raw integer in `length` bits, two's complement
RawBits(raw, length) ==
    IF raw.neg THEN MagSub({length}, raw.mag) \ {length} ELSE raw.mag

\* the raw integer the span of the descriptor holds
SpanRaw(d, buf) == IF d.endian = "Little" THEN LittleRaw(d, buf) ELSE BigRaw(d, buf)

\* C18: encode scaling uses floor: for every in-range value the raw
\* integer written by try_encode is floor((value - offset) / factor), also
\* where the quotient is negative and not an integer.
C18_EncodeFloor ==
    (op.name = "try_encode" /\ IsOk(op.res) /\ FitsRaw(sig, FloorRaw(sig, op.arg)))
    => SpanRaw(sig, data) = RawBits(FloorRaw(sig, op.arg), sig.length)

\* C19: fallible entry points return errors as values: on buffers of 0..8
\* bytes, try_encode and try_decode of Bit, Unsigned and Signed descriptors
\* end with Ok or an error value and never abort.
C19_NoAbort ==
    (op.name \in {"try_encode", "try_decode", "Bit::try_encode", "Bit::try_decode"}
        /\ Len(op.before) <= 8)
    => ~IsPanic(op.res)

\* a wrapper mirrors its try_ call: it returns what the call returned in Ok,
\* and it aborts exactly when the call returned Err
Mirrors(res, tried) ==
    /\ IsOk(res) <=> IsOk(tried)
    /\ IsOk(res) => res = tried
    /\ IsPanic(res) <=> tried.tag = "Err"

\* C20: panic-on-failure wrappers: decode returns v exactly when
\* try_decode returns Ok(v) and aborts exactly when it returns Err; encode
\* has the buffer effect of try_encode when that returns Ok and aborts
\* exactly when it returns Err, the buffer then unchanged.
C20_PanickingWrappers ==
    /\ op.name = "decode" =>
            \E checks \in BOOLEAN : Mirrors(op.res, try_decode(sig, op.before, checks))
    /\ op.name = "Bit::decode" => Mirrors(op.res, Bit_try_decode(sig.start, op.before))
    /\ op.name = "encode" =>
            /\ \E checks \in BOOLEAN :
                    \E w \in {try_encode(sig, op.before, op.arg, checks)} :
                        Mirrors(op.res, w.res) /\ data = w.data
            /\ IsPanic(op.res) => data = op.before
    /\ op.name = "Bit::encode" =>
            /\ \E w \in {Bit_try_encode(sig.start, op.before, op.arg)} :
                    Mirrors(op.res, w.res) /\ data = w.data
            /\ IsPanic(op.res) => data = op.before

\* default_decode returns what a try_decode that returned Ok gave, and the
\* given default where it returned Err
Defaults(res, tried, default) ==
    IF IsOk(tried) THEN res = tried
    ELSE tried.tag = "Err" /\ res = Ok(default)

\* C21: default_decode never fails: for every signal type and buffer it
\* returns v when try_decode returns Ok(v), and the default of the value
\* type (false for Bit, 0 for Unsigned and Signed, whatever the offset)
\* when try_decode returns Err.
C21_DefaultDecode ==
    /\ op.name = "default_decode" =>
            /\ ~IsPanic(op.res)
            /\ \E checks \in BOOLEAN :
                    Defaults(op.res, try_decode(sig, op.before, checks), MkF64(FALSE, {}))
    /\ op.name = "Bit::default_decode" =>
            /\ ~IsPanic(op.res)
            /\ Defaults(op.res, Bit_try_decode(sig.start, op.before), FALSE)

\* -1 and the minimum value of a w-bit signed integer, in two's complement
MinusOne(w) == 0..(w - 1)

MinValue(w) == {w - 1}

\* C22: mask value: for every width W in 8, 16, 32, 64, signed or not, and
\* every length >= 1 and shift with length + shift <= W, mask(length, shift)
\* returns the pattern with exactly the bits shift..shift+length-1 set, which
\* is bit_mask of those indices; mask(W, 0) is full_mask(), -1 for a signed
\* type; mask(1, W-1) is the minimum value of a signed type; none of these
\* calls faults.
C22_Mask ==
    (op.name = "mask" /\ op.arg[1] >= 1 /\ op.arg[1] + op.arg[2] <= sig.width) =>
        /\ op.res = Ok(op.arg[2]..(op.arg[2] + op.arg[1] - 1))
        /\ \A checks \in BOOLEAN :
                Mask_bit_mask(Run(op.arg[2], op.arg[1]), sig.width, checks) = op.res
        /\ op.arg[1] = sig.width =>
                /\ op.res = Mask_full_mask(sig.width)
                /\ sig.signed => op.res.val = MinusOne(sig.width)
        /\ (sig.signed /\ op.arg = <<1, sig.width - 1>>) => op.res.val = MinValue(sig.width)

\* C22 happens: mask(1, 63) of i64 returned the minimum value
C22_Witness ==
    /\ op.name = "mask" /\ sig.signed /\ sig.width = WordBits
    /\ op.arg = <<1, WordBits - 1>>
    /\ op.res = Ok({WordBits - 1})

\* C23: candump text round trip: for every entry that CANDumpEntry::new
\* accepts (a non-empty interface without spaces, any can_id, any number of
\* data bytes, none included), parsing the text to_string gives for the
\* entry returns Ok of an entry equal to it.
C23_CandumpRoundTrip ==
    (op.name = "from_str" /\ sig.kind = "CANDumpEntry" /\ op.arg = CANDumpEntry_to_string(sig))
        => op.res = Ok(sig)

RECURSIVE Walk(_, _)
\* the first n positions of the walk from `start`: down within a byte, from
\* bit 0 of a byte on to bit 7 of the next byte
Walk(start, n) ==
    IF n = 1 THEN <<start>>
    ELSE LET w == Walk(start, n - 1)
             p == w[n - 1]
         IN  Append(w, IF p % 8 # 0 THEN p - 1 ELSE 8 * ((p \div 8) + 1) + 7)

\* the masked raw value try_encode writes for a value
MaskedRaw(d, value) ==
    IF d.kind = "Unsigned" THEN UnsignedRaw(d, value)
    ELSE SignedRaw(d, SignedTrunc(d, value))

Initial(buf) == [j \in 1..Len(buf) |-> Fill]

\* the buffer of the length of buf with no bit set
Zeroed(buf) == [j \in 1..Len(buf) |-> {}]

DeclaredSpan(d) == IF d.kind = "Bit" THEN {d.start} ELSE SpanBits(d)

\* the other descriptor of a pair
Other(which) == IF which = "a" THEN "b" ELSE "a"

\* C26: independence of disjoint signals: for two descriptors (any mix of
\* Bit, Unsigned, Signed, Little and Big) whose declared spans share no bit
\* and any interleaving of successful try_encode calls on one buffer, a
\* try_encode on one never changes the result of try_decode on the other,
\* and each descriptor decodes the value last encoded for it.
C26_DisjointSignals ==
    (sig.kind = "Pair" /\ DeclaredSpan(sig.a) \cap DeclaredSpan(sig.b) = {}) =>
        /\ (op.name = "try_encode" /\ IsOk(op.res)) =>
                \A checks \in BOOLEAN :
                    DecodeAny(sig[Other(op.arg[1])], data, checks)
                        = DecodeAny(sig[Other(op.arg[1])], op.before, checks)
        /\ \A which \in {"a", "b"} :
                enc[which] # NoValue =>
                    \A checks \in BOOLEAN : DecodeAny(sig[which], data, checks) = Ok(enc[which])
        /\ (op.name = "try_decode" /\ enc[op.arg[1]] # NoValue) => op.res = Ok(enc[op.arg[1]])

\* the span of the descriptor touches nine bytes
NineBytes(d) ==
    /\ d.length <= 64
    /\ IF d.endian = "Little" THEN (d.start % 8) + d.length > 64
       ELSE (7 - (d.start % 8)) + d.length > 64

\* C27: spans touching nine bytes: for an Unsigned or Signed descriptor
\* whose span touches nine bytes, on a buffer of at least 9 bytes on which
\* availability passes, try_decode returns the value formed from all
\* `length` bits of the span; the 8-byte scratch buffer loses none of them.
C27_NineByteSpans ==
    (op.name = "try_decode" /\ sig.kind \in Kinds /\ NineBytes(sig)
        /\ Len(data) >= 9 /\ SpanFits(sig, data))
    => op.res = Ok(Scale(IF sig.kind = "Unsigned" THEN u64_as_f64(SpanRaw(sig, data))
                         ELSE TwosComplement(SpanRaw(sig, data), sig.length), sig))

\* C28: 16-bit position arithmetic does not wrap into acceptance: for every
\* start and every length 1..64 with start + length > 65535, Little-endian
\* try_decode and try_encode of Unsigned and Signed on a buffer of at most
\* 8 bytes return NotEnoughData, as start + length > 8 * dlc requires; the
\* u16 sum is not reduced modulo 2^16 into a value that passes the
\* availability check, and the call does not abort.
C28_NoWrapIntoAcceptance ==
    (sig.kind \in Kinds /\ sig.endian = "Little" /\ sig.start + sig.length > 65535
        /\ Len(op.before) <= 8
        /\ (op.name = "try_decode" \/ (op.name = "try_encode" /\ InDocRange(sig, op.arg))))
    => op.res = Err("NotEnoughData")

\* the texts of a file whose read succeeded and that parse to an entry, in
\* line order, from line `from` on
ParsingFrom(kind, lines, from) ==
    {j \in from..Len(lines) : IsOk(lines[j]) /\ IsOk(ParseLine(kind, lines[j].val))}

\* next() has given the entry of the first line left that parses and has
\* taken the lines up to it, or None when no line left parses
NextYields ==
    LET parsing == ParsingFrom(sig.kind, op.before, 1)
        first == CHOOSE j \in parsing : \A k \in parsing : j <= k
    IN  IF parsing = {} THEN op.res = None /\ sig.lines = <<>>
        ELSE /\ op.res = Some(ParseLine(sig.kind, op.before[first].val).val)
             /\ sig.lines = SubSeq(op.before, first + 1, Len(op.before))

\* C29: for every finite sequence of lines, each next() of CANDumpIterator
\* and CANDumpLogIterator yields the entry of the first line left that
\* parses, skipping the lines before it that do not parse (blank lines and
\* lines whose timestamp or [dlc] token is empty or one character long
\* among them) without aborting, and next() eventually returns None
C29_LogIteratorProgress ==
    /\ [](op.name = "next" => (~IsPanic(op.res) /\ NextYields))
    /\ <>(op.name = "next" /\ op.res = None)

\* try_encode has passed its range and availability checks in the build
\* that gave the result of the call
PassedChecks(checks) ==
    /\ RangeCheck(sig, op.arg, checks) = "pass"
    /\ Avail(sig, op.before, checks) = "pass"
    /\ op.res = try_encode(sig, op.before, op.arg, checks).res

\* C30: once try_encode of an Unsigned or Signed descriptor has passed its
\* range and availability checks, every bit position handed to
\* Bit::try_encode in the write loop lies inside the buffer (position / 8 <
\* dlc), so no inner write fails, the unwrap does not panic, the call
\* returns Ok and `length` bits are written
C30_InnerWritesCannotFail ==
    (op.name = "try_encode" /\ sig.kind \in Kinds)
    => \A checks \in BOOLEAN :
        PassedChecks(checks)
        => /\ IsOk(op.res)
           /\ Cardinality(SpanBits(sig)) = sig.length
           /\ \A p \in SpanBits(sig) : p \div ByteBits < Len(op.before)

====
